---------------------------- MODULE Spec2Model ----------------------------
(***************************************************************************)
(* DiskTool v4.5 (src/disktool.py): the Imager's pre-flight and imaging    *)
(* workers, the button and status line they share, and the helpers they    *)
(* call (_resolve, run_stream, str.format + split_cmd, detect_output).     *)
(*                                                                         *)
(* Threads.  The Tk main loop runs the handlers run_checks and image_disk; *)
(* each starts a daemon thread (_checks_thread, _img_thread).  A thread's  *)
(* position is its pc; one action is one stretch of its code between two   *)
(* points where the other threads can observe or change shared state.      *)
(*                                                                         *)
(* Environment.  The text fields (override paths, templates) are           *)
(* Entry-bound StringVars the user edits outside any handler, and PATH and *)
(* the file system belong to the operating system: every read of them      *)
(* draws the current value from a bounded set.  The Desktop files named    *)
(* after the base name are state, because the runs write them.             *)
(***************************************************************************)
EXTENDS Integers, Sequences, FiniteSets, Bags, TLC

\* ------------------------------------------------------------- bounds
\* Imaging runs started in one behaviour (clicks on "Image Disk").
MaxRuns == 2
\* Pre-flight workers alive at the same time (timer + "Recheck" clicks).
MaxChecks == 2
\* Largest exit code a subprocess returns on its own.
MaxExit == 1

\* ------------------------------------------------------------- values
\* Python's None, for Optional[str] results.
None == "None"

ExitCodes == 0..MaxExit
\* rc before the stage has run.
NoRc == 0 - 1

\* ------------------------------------------------------------- paths
\* SUGAR_FALLBACKS, in the order of the list.
SUGAR_FALLBACKS ==
    << "/home/u/Desktop/SugarConvDsk/build/SugarConvDsk/SugarConvDsk",
       "/home/u/Desktop/SugarConvDsk/build/SugarConvDsk/SugarConvDsk.exe",
       "/home/u/Desktop/SugarConvDsk/build/SugarConvDsk",
       "/home/u/Desktop/SugarConvDsk/SugarConvDsk",
       "/home/u/Desktop/SugarConvDsk/SugarConvDsk.exe" >>

\* What the user may have typed in an override field: nothing, or a path
\* written with the home-directory shorthand and containing a space.
CustomEmpty == ""
CustomTyped == "~/my tools/tool"
Customs == {CustomEmpty, CustomTyped}

\* Path.expanduser on the paths of the model.
Expanduser(p) == IF p = CustomTyped THEN "/home/u/my tools/tool" ELSE p

\* Path.suffix = "" : the final component has no extension.
SuffixEmpty(p) ==
    p \in { SUGAR_FALLBACKS[1], SUGAR_FALLBACKS[3], SUGAR_FALLBACKS[4],
            "/home/u/my tools/tool", "/usr/bin/gw", "/usr/bin/SugarConvDsk" }

\* Path.with_suffix(".exe") on the suffix-less paths of the model.
WithSuffixExe(p) ==
    CASE p = SUGAR_FALLBACKS[1] -> SUGAR_FALLBACKS[2]
      [] p = SUGAR_FALLBACKS[3] -> "/home/u/Desktop/SugarConvDsk/build/SugarConvDsk.exe"
      [] p = SUGAR_FALLBACKS[4] -> SUGAR_FALLBACKS[5]
      [] p = "/home/u/my tools/tool" -> "/home/u/my tools/tool.exe"
      [] OTHER -> p

\* The paths _resolve can probe with exists() / os.access().
ProbePaths ==
    { SUGAR_FALLBACKS[i] : i \in 1..Len(SUGAR_FALLBACKS) }
      \cup { WithSuffixExe(SUGAR_FALLBACKS[3]),
             "/home/u/my tools/tool", "/home/u/my tools/tool.exe" }

\* A probed path is absent, present but not executable, or executable.
FileStates == {"absent", "noexec", "exec"}

Tools == {"gw", "SugarConvDsk"}
\* shutil.which(name): None, or the path found on PATH.
WhichResults(name) == {None, IF name = "gw" THEN "/usr/bin/gw" ELSE "/usr/bin/SugarConvDsk"}

\* _maybe_exe: on Windows a suffix-less path with an existing .exe sibling
\* becomes the sibling.  env.nt is (os.name == "nt").
MaybeExe(p, env) ==
    IF env.nt /\ SuffixEmpty(p) /\ env.fs[WithSuffixExe(p)] # "absent"
    THEN WithSuffixExe(p)
    ELSE p

\* c.exists() and os.access(str(c), os.X_OK)
ExistsAndExecutable(p, env) == env.fs[p] = "exec"

\* The first fallback candidate that exists and is executable (after
\* _maybe_exe), walking the list from index i; None when there is none.
RECURSIVE FirstFallback(_, _)
FirstFallback(i, env) ==
    IF i > Len(SUGAR_FALLBACKS) THEN None
    ELSE LET c == MaybeExe(SUGAR_FALLBACKS[i], env)
         IN  IF ExistsAndExecutable(c, env) THEN c ELSE FirstFallback(i + 1, env)

Msg(kind, name, path) == [kind |-> kind, name |-> name, path |-> path]

\* Imager._resolve with the override tried before the search path: the
\* variant that C10 excludes.
ResolveOverrideFirst(name, custom, env) ==
    LET cp == MaybeExe(Expanduser(custom), env)
    IN  IF custom # "" /\ ExistsAndExecutable(cp, env)
        THEN [path |-> cp, msg |-> Msg("resolved via custom path", name, cp)]
        ELSE IF env.which # None
        THEN [path |-> env.which, msg |-> Msg("found on PATH", name, env.which)]
        ELSE [path |-> None, msg |-> Msg("not found. Provide a path.", name, None)]

\* Imager._resolve walking the fallback list whatever the tool and the
\* override: the variant that C11 excludes.
ResolveFallbackAlways(name, custom, env) ==
    LET p  == env.which
        fb == FirstFallback(1, env)
        cp == MaybeExe(Expanduser(custom), env)
    IN  IF p # None
        THEN [path |-> p, msg |-> Msg("found on PATH", name, p)]
        ELSE IF fb # None
        THEN [path |-> fb, msg |-> Msg("resolved via fallback", name, fb)]
        ELSE IF custom # ""
        THEN IF ExistsAndExecutable(cp, env)
             THEN [path |-> cp, msg |-> Msg("resolved via custom path", name, cp)]
             ELSE [path |-> None, msg |-> Msg("custom path is not executable", name, cp)]
        ELSE [path |-> None, msg |-> Msg("not found. Provide a path.", name, None)]

\* Imager._resolve(name, custom) -> (path or None, message).
\* env.which is shutil.which(name); env.fs the state of the probed paths.
Resolve(name, custom, env) ==
    LET p  == env.which
        fb == IF name = "SugarConvDsk" /\ custom = ""
              THEN FirstFallback(1, env) ELSE None
        cp == MaybeExe(Expanduser(custom), env)
    IN  IF p # None
        THEN [path |-> p, msg |-> Msg("found on PATH", name, p)]
        ELSE IF fb # None
        THEN [path |-> fb, msg |-> Msg("resolved via fallback", name, fb)]
        ELSE IF custom # ""
        THEN IF ExistsAndExecutable(cp, env)
             THEN [path |-> cp, msg |-> Msg("resolved via custom path", name, cp)]
             ELSE [path |-> None, msg |-> Msg("custom path is not executable", name, cp)]
        ELSE [path |-> None, msg |-> Msg("not found. Provide a path.", name, None)]

\* ------------------------------------------------------------- run_stream
\* How subprocess.Popen ends: the child starts, or Popen raises.
LaunchOutcomes == {"started", "FileNotFoundError", "PermissionError", "OSError"}

\* run_stream(cmd, cb): the exit code, or the code standing for a launch
\* failure.  PermissionError is an Exception like any other.
RunStream(launch, code) ==
    CASE launch = "FileNotFoundError" -> 127
      [] launch = "started"           -> code
      [] OTHER                        -> 1

\* What run_stream hands to the sink cb when Popen raises.
RunStreamSink(launch) ==
    CASE launch = "FileNotFoundError" -> "Executable not found"
      [] launch = "started"           -> "child output"
      [] OTHER                        -> "Launch error"

\* ------------------------------------------------------------- templates
\* A template is a sequence of whitespace-separated words; a word is a
\* sequence of parts; a part is literal text or a replacement field.
FieldNames ==
    ( "{gw}" :> "gw" @@ "{sugar}" :> "sugar" @@ "{scp}" :> "scp" @@
      "{dsk}" :> "dsk" @@ "{drive}" :> "drive" @@ "{tracks}" :> "tracks" @@
      "{revs}" :> "revs" @@ "{reader}" :> "reader" @@
      "{converter}" :> "converter" @@ "{capture}" :> "capture" @@
      "{outbase}" :> "outbase" )

IsField(part) == part \in DOMAIN FieldNames

\* The keys of the dict subs: the names str.format(**subs) accepts.
Recognized == {"gw", "sugar", "scp", "dsk", "drive", "tracks", "revs"}

\* The default templates of _defaults, and templates written with the
\* placeholder names {reader} {converter} {capture} {outbase}.
ReadDefault ==
    << <<"{gw}">>, <<"read">>, <<"--drive=", "{drive}">>,
       <<"--tracks=", "{tracks}">>, <<"--revs=", "{revs}">>, <<"{scp}">> >>
ConvDefault == << <<"{sugar}">>, <<"{scp}">>, <<"{dsk}">>, <<"-o=EDSK">> >>
ReadOtherNames == << <<"{reader}">>, <<"read">>, <<"{capture}">> >>
ConvOtherNames == << <<"{converter}">>, <<"{capture}">>, <<"{outbase}">> >>

ReadTemplates == {ReadDefault, ReadOtherNames}
ConvTemplates == {ConvDefault, ConvOtherNames}

\* subs of _img_thread for the base name Test1 and the default parameters.
Subs(gw, sugar) ==
    [ gw |-> gw, sugar |-> sugar,
      scp |-> "/home/u/Desktop/Test1.scp", dsk |-> "/home/u/Desktop/Test1",
      drive |-> "0", tracks |-> "c=0-39:h=0", revs |-> "3" ]

RECURSIVE Flatten(_)
Flatten(ss) == IF ss = <<>> THEN <<>> ELSE Head(ss) \o Flatten(Tail(ss))

\* The fields of a template, left to right.
FieldsOf(tmpl) ==
    LET parts == Flatten(tmpl)
    IN  SelectSeq(parts, IsField)

\* str.format(**subs): the first field whose name is no key of subs raises
\* KeyError(name), whose text is that name alone; otherwise every field is
\* replaced by its value.
Format(tmpl, subs) ==
    LET fs  == FieldsOf(tmpl)
        bad == { i \in 1..Len(fs) : FieldNames[fs[i]] \notin DOMAIN subs }
    IN  IF bad # {}
        THEN LET i == CHOOSE j \in bad : \A k \in bad : j <= k
             IN  [ ok |-> FALSE, exc |-> "KeyError",
                   names |-> {FieldNames[fs[i]]}, words |-> <<>> ]
        ELSE [ ok |-> TRUE, exc |-> None, names |-> {},
               words |-> [ w \in 1..Len(tmpl) |->
                             [ k \in 1..Len(tmpl[w]) |->
                                 IF IsField(tmpl[w][k])
                                 THEN subs[FieldNames[tmpl[w][k]]]
                                 ELSE tmpl[w][k] ] ] ]

\* The whitespace-separated chunks of a piece of text (shlex word
\* splitting of unquoted text).
Chunks(text) ==
    CASE text = "/home/u/my tools/tool"     -> <<"/home/u/my", "tools/tool">>
      [] text = "/home/u/my tools/tool.exe" -> <<"/home/u/my", "tools/tool.exe">>
      [] text = ""                          -> <<>>
      [] OTHER                              -> <<text>>

\* Append the chunks cs of the next part of a word to the arguments built
\* so far: the first chunk continues the open argument, the others open
\* new ones.
JoinChunks(args, open, cs) ==
    IF cs = <<>> THEN args
    ELSE IF open /\ args # <<>>
    THEN SubSeq(args, 1, Len(args) - 1)
           \o << args[Len(args)] \o <<cs[1]>> >>
           \o [ i \in 1..(Len(cs) - 1) |-> <<cs[i + 1]>> ]
    ELSE args \o [ i \in 1..Len(cs) |-> <<cs[i]>> ]

RECURSIVE SplitWord(_, _, _, _)
SplitWord(word, k, args, open) ==
    IF k > Len(word) THEN args
    ELSE LET cs == Chunks(word[k])
         IN  SplitWord(word, k + 1, JoinChunks(args, open, cs),
                       open \/ cs # <<>>)

RECURSIVE SplitWords(_, _, _)
SplitWords(words, w, args) ==
    IF w > Len(words) THEN args
    ELSE SplitWords(words, w + 1, SplitWord(words[w], 1, args, FALSE))

\* split_cmd(s): the argument vector; an argument is the sequence of the
\* pieces of text it is made of.
SplitCmd(words) == SplitWords(words, 1, <<>>)

\* lines 299-300 with the convert template left for later: only the read
\* template is expanded before the read stage.
ExpandReadFirst(rt, ct, subs) ==
    LET fr == Format(rt, subs)
    IN  [ ok |-> fr.ok, exc |-> fr.exc, names |-> fr.names,
          read_cmd |-> IF fr.ok THEN SplitCmd(fr.words) ELSE <<>>,
          conv_cmd |-> <<>> ]

\* lines 299-300: both templates are expanded and split, the read
\* template first; the first KeyError ends the thread, so no command is
\* built unless both expansions succeed.
Expand(rt, ct, subs) ==
    LET fr  == Format(rt, subs)
        fc  == Format(ct, subs)
        bad == IF fr.ok THEN fc ELSE fr
    IN  IF fr.ok /\ fc.ok
        THEN [ ok |-> TRUE, exc |-> None, names |-> {},
               read_cmd |-> SplitCmd(fr.words), conv_cmd |-> SplitCmd(fc.words) ]
        ELSE [ ok |-> FALSE, exc |-> bad.exc, names |-> bad.names,
               read_cmd |-> <<>>, conv_cmd |-> <<>> ]

\* ------------------------------------------------------------- detect_output
\* Desktop entries whose name starts with the base name, named by what
\* follows the base name.
ScpName == ".scp"
ExpDsk == ".DSK"
DetectSuffixes == << ".DSK", ".dsk", ".EDSK", ".edsk", ".dsk.DSK", ".edsk.EDSK" >>

\* Entries a Desktop may hold beside the names of the fixed list: a file
\* and a directory ending in .dsk, a file whose extension only contains
\* the letters dsk, a backup of an image, a capture file.
DirName == "_dir.dsk"
DetectNames ==
    { DetectSuffixes[i] : i \in 1..Len(DetectSuffixes) }
      \cup {"_a.dsk", "_b.XDSK1", ".dsk.bak", ".scp", DirName}

\* Path.is_file()
IsFile(n) == n # DirName

\* Path.suffix.lower() of an entry: its last extension, lower-cased.
SuffixLower(n) ==
    CASE n \in {".DSK", ".dsk", ".dsk.DSK", "_a.dsk", "_dir.dsk"} -> ".dsk"
      [] n \in {".EDSK", ".edsk", ".edsk.EDSK"}         -> ".edsk"
      [] n = "_b.XDSK1"                                 -> ".xdsk1"
      [] n = ".scp"                                     -> ".scp"
      [] n = ".img"                                     -> ".img"
      [] n = ".dsk.bak"                                 -> ".bak"
      [] OTHER                                          -> ""

\* any(x in p.suffix.lower() for x in ("dsk","edsk")): the extensions of
\* the model that contain the letters dsk.
SuffixHasDsk(n) == SuffixLower(n) \in {".dsk", ".edsk", ".xdsk1"}

\* The first suffix of the fixed list, from index i, whose file exists.
RECURSIVE FirstSuffix(_, _)
FirstSuffix(i, present) ==
    IF i > Len(DetectSuffixes) THEN None
    ELSE IF DetectSuffixes[i] \in present THEN DetectSuffixes[i]
    ELSE FirstSuffix(i + 1, present)

\* detect_output without its tolerance rules: only the expected name.
DetectOutputsExactOnly(present) ==
    IF ExpDsk \in present THEN {ExpDsk} ELSE {None}

\* detect_output(exp, base): the values it can return when the entries
\* `present` exist.  The directory scan yields the entries in an order the
\* file system chooses, so its first match is any match.
DetectOutputs(present) ==
    IF ExpDsk \in present THEN {ExpDsk}
    ELSE IF FirstSuffix(1, present) # None THEN {FirstSuffix(1, present)}
    ELSE LET globbed == { n \in present : IsFile(n) /\ SuffixHasDsk(n) }
         IN  IF globbed # {} THEN globbed ELSE {None}

\* ------------------------------------------------------------- probes
\* The text `gw --help` prints, as the set of the marker words it contains.
HelpMarkers == {"Usage:", "Actions:", "Greaseweazle"}
HelpOutputs == { {}, {"Usage:"}, {"Actions:", "Greaseweazle"} }

\* help_ok(out)
HelpOk(out) == out \cap HelpMarkers # {}

\* run_cap(cmd) -> (returncode, output); any exception gives (1, str(e)).
RunCap(launch, code, out) ==
    IF launch = "started" THEN [rc |-> code, out |-> out]
    ELSE [rc |-> 1, out |-> {}]

\* ------------------------------------------------------------- conditions
\* lines 266-276 without the test of the `gw info` exit code.
ChecksOkNoInfo(gw, help, info, sugar) ==
    (gw # None /\ HelpOk(help.out)) /\ sugar # None

\* ok of _checks_thread at line 277, from what _resolve returned for gw
\* (line 264), run_cap for `gw --help` and `gw info` (lines 268, 271; not
\* run when gw is None, info not run when the help text is not
\* recognised) and _resolve for SugarConvDsk (line 274).
ChecksOk(gw, help, info, sugar) ==
    LET okGw == IF gw = None THEN FALSE
                ELSE IF ~HelpOk(help.out) THEN FALSE
                ELSE info.rc = 0
    IN  IF sugar = None THEN FALSE ELSE okGw

\* line 278: the status a pre-flight worker sets.
ChecksStatus(ok) == IF ok THEN "Ready." ELSE "Pre-flight failed"

\* line 288 with `or` for `and`: one resolved tool is enough.
UnresolvedBothMissing(gw, sugar) == gw = None /\ sugar = None

\* line 288 testing the reader alone.
UnresolvedReaderOnly(gw, sugar) == gw = None

\* line 288: not (gw and sugar)
Unresolved(gw, sugar) == ~(gw # None /\ sugar # None)

\* line 304 without the exit code: only the capture file is looked at.
ReadFailedFileOnly(rc, scpExists) == ~scpExists

\* line 304: rc or not scp.exists()
ReadFailed(rc, scpExists) == rc # 0 \/ ~scpExists

\* line 308 without the locator: only the exit code is looked at.
ConvertFailedCodeOnly(rc2, dsk) == rc2 # 0

\* line 308: rc2 or not dsk
ConvertFailed(rc2, dsk) == rc2 # 0 \/ dsk = None

\* ------------------------------------------------------------- state
VARIABLES
    btn,      \* self.btn ("Image Disk") is enabled
    status,   \* self.status, the status line
    files,    \* Desktop entries named after the base name
    empty,    \* those of them that are zero-length files
    chk,      \* the live _checks_thread workers: a bag of their states
    img,      \* the live _img_thread workers and the one that ended last
    call,     \* a helper call under test: function and arguments
    ret       \* its result

vars == << btn, status, files, empty, chk, img, call, ret >>

\* Entries the stages of the model can leave on the Desktop.
ConvOutputs == {".DSK", ".edsk"}
DeskNames == {ScpName} \cup ConvOutputs

\* A worker's state is its position and its locals, with a record of what
\* it has done: scpSeen (the capture file existed when line 304 ran),
\* own (every file it has accepted as its artifact, at lines 304 and 308,
\* was left there by its own read or convert child),
\* digested, outcome (the status it set), reenabled (it enabled the
\* button), summary (it wrote the session file), exc and names (the
\* exception that killed it and the names its text holds).
ChkStart == [pc |-> "status"]

ImgStart ==
    [ pc |-> "prepare", gw |-> None, sugar |-> None, exc |-> None, names |-> {},
      read_cmd |-> <<>>, conv_cmd |-> <<>>, rc |-> NoRc, scpSeen |-> FALSE,
      rc2 |-> NoRc, dsk |-> "unset", digested |-> FALSE, outcome |-> "none",
      reenabled |-> FALSE, summary |-> FALSE, own |-> TRUE ]

\* The bag b with one worker moved from state s to state t.
Move(b, s, t) == (b (-) SetToBag({s})) (+) SetToBag({t})

\* A worker is live until its thread function returns or dies.
IsActive(t) == t.pc \notin {"exit", "crashed"}

\* The bag b with worker s ended in state t.  Nothing holds on to a
\* thread that has ended (image_disk keeps no reference): the bag keeps
\* the record of the one that ended last and forgets the earlier ones.
Retire(b, s, t) ==
    LET live == { x \in BagToSet(b) : IsActive(x) }
    IN  ([x \in live |-> b[x]] (-) SetToBag({s})) (+) SetToBag({t})

NoCall == [fn |-> "none"]
NoRet == [done |-> FALSE]

\* Imager.__init__: the button is created enabled, the status reads "...",
\* no worker runs yet (run_checks is scheduled with master.after).  The
\* Desktop may hold files of earlier sessions.
Init ==
    /\ btn = TRUE
    /\ status = "..."
    /\ files \in SUBSET DeskNames
    /\ empty \in SUBSET (files \cap {ScpName})
    /\ chk = EmptyBag
    /\ img = EmptyBag
    /\ call = NoCall
    /\ ret = NoRet

\* ------------------------------------------------------------- environment
NoFiles == [p \in ProbePaths |-> "absent"]

\* What _resolve("gw", ...) can meet: gw on PATH or not, an override typed
\* or not, none of the probed paths present.
GwEnvs == { [nt |-> FALSE, which |-> w, fs |-> NoFiles] : w \in WhichResults("gw") }

\* What _resolve("SugarConvDsk", ...) can meet: not on PATH, the first
\* fallback location installed or not.
SugarEnvs ==
    { [nt |-> FALSE, which |-> None, fs |-> f] :
        f \in {NoFiles, [NoFiles EXCEPT ![SUGAR_FALLBACKS[1]] = "exec"]} }

\* What lines 264-277 of _checks_thread can compute for ok: gw resolved,
\* `gw --help` recognised, `gw info` exiting 0, SugarConvDsk resolved.
ChecksOutcomes ==
    { LET gw    == Resolve("gw", cg, eg).path
          help  == RunCap(lh, 0, out)
          info  == RunCap(li, code, {})
          sugar == Resolve("SugarConvDsk", cs, es).path
      IN  ChecksOk(gw, help, info, sugar) :
        cg \in Customs, eg \in GwEnvs, lh \in LaunchOutcomes,
        out \in HelpOutputs, li \in LaunchOutcomes, code \in ExitCodes,
        cs \in Customs, es \in SugarEnvs }

\* What line 287 can compute for (gw, sugar).
ResolveOutcomes ==
    { << Resolve("gw", cg, eg).path, Resolve("SugarConvDsk", cs, es).path >> :
        cg \in Customs, eg \in GwEnvs, cs \in Customs, es \in SugarEnvs }

\* What a stage's run_stream call can return, with the entry the child
\* left on the Desktop (None: nothing the model tracks); a child that
\* never started leaves nothing.
StageOutcomes(leaves) ==
    { << RunStream(launch, code), IF launch = "started" THEN w ELSE None >> :
        launch \in LaunchOutcomes, code \in ExitCodes, w \in leaves \cup {None} }

\* The read child writes the capture file with data or leaves it
\* zero-length: << exit code, entry left, entry is zero-length >>.
ReadOutcomes ==
    { << o[1], o[2], z >> :
        o \in StageOutcomes({ScpName}), z \in BOOLEAN } \
    { << o[1], None, TRUE >> : o \in StageOutcomes({ScpName}) }
ConvOutcomes == StageOutcomes(ConvOutputs)

\* ------------------------------------------------------------- pre-flight
\* Imager.run_checks, run by the timer of __init__ (master.after) and by
\* every click on "Recheck", a button that is never disabled: disable the
\* "Image Disk" button, show "Pre-flight...", start a _checks_thread.
RunChecks ==
    /\ BagCardinality(chk) < MaxChecks
    /\ chk' = chk (+) SetToBag({ChkStart})
    /\ btn' = FALSE
    /\ status' = "Pre-flight..."
    /\ UNCHANGED << files, empty, img, call, ret >>

\* _checks_thread lines 264-278: resolve gw, probe it with --help and
\* info, resolve SugarConvDsk, append the messages (all of it local to
\* the thread), then status.set("Ready." if ok else "Pre-flight failed");
\* a worker whose ok is false ends here.
CheckStatus ==
    \E t \in BagToSet(chk), ok \in ChecksOutcomes :
        /\ t.pc = "status"
        /\ status' = ChecksStatus(ok)
        /\ chk' = IF ok THEN Move(chk, t, [pc |-> "btn"])
                  ELSE chk (-) SetToBag({t})
        /\ UNCHANGED << btn, files, empty, img, call, ret >>

\* _checks_thread line 279: if ok: btn.state(["!disabled"]); the worker ends.
CheckBtn ==
    \E t \in BagToSet(chk) :
        /\ t.pc = "btn"
        /\ btn' = TRUE
        /\ chk' = chk (-) SetToBag({t})
        /\ UNCHANGED << status, files, empty, img, call, ret >>

\* ------------------------------------------------------------- imaging
\* The number of _img_thread workers that have not ended.
NumActive ==
    LET act == { t \in BagToSet(img) : IsActive(t) }
        RECURSIVE Sum(_)
        Sum(S) == IF S = {} THEN 0
                  ELSE LET x == CHOOSE y \in S : TRUE
                       IN  CopiesIn(x, img) + Sum(S \ {x})
    IN  Sum(act)

\* Imager.image_disk: the click on the enabled "Image Disk" button.
ImageDisk ==
    /\ btn
    /\ BagCardinality(img) < MaxRuns
    /\ img' = img (+) SetToBag({ImgStart})
    /\ btn' = FALSE
    /\ status' = "Imaging..."
    /\ UNCHANGED << files, empty, chk, call, ret >>

\* _img_thread lines 287-301: resolve both tools; without both, report
\* "Executables unresolved." and return.  Otherwise build subs and expand
\* both templates; a KeyError of str.format is caught nowhere, so the
\* thread dies with it, the status untouched.
ImgPrepare ==
    \E t \in BagToSet(img), res \in ResolveOutcomes,
       rt \in ReadTemplates, ct \in ConvTemplates :
        LET gw    == res[1]
            sugar == res[2]
            x     == Expand(rt, ct, Subs(gw, sugar))
        IN  /\ t.pc = "prepare"
            /\ IF Unresolved(gw, sugar)
               THEN /\ img' = Retire(img, t, [t EXCEPT !.pc = "exit", !.gw = gw,
                                              !.sugar = sugar,
                                              !.outcome = "Pre-flight failed"])
                    /\ status' = "Pre-flight failed"
               ELSE IF x.ok
               THEN /\ img' = Move(img, t, [t EXCEPT !.pc = "read", !.gw = gw,
                                              !.sugar = sugar,
                                              !.read_cmd = x.read_cmd,
                                              !.conv_cmd = x.conv_cmd])
                    /\ UNCHANGED status
               ELSE /\ img' = Retire(img, t, [t EXCEPT !.pc = "crashed", !.gw = gw,
                                              !.sugar = sugar, !.exc = x.exc,
                                              !.names = x.names])
                    /\ UNCHANGED status
            /\ UNCHANGED << btn, files, empty, chk, call, ret >>

\* _img_thread lines 302-304: run the read command to its end; the child
\* may or may not leave the capture file, whatever its exit code.  Then
\* if rc or not scp.exists(): "Read failed", return.
ImgRead ==
    \E t \in BagToSet(img), res \in ReadOutcomes :
        LET rc    == res[1]
            after == IF res[2] # None THEN files \cup {res[2]} ELSE files
            zero  == IF res[2] = None THEN empty
                     ELSE IF res[3] THEN empty \cup {res[2]} ELSE empty \ {res[2]}
        IN  /\ t.pc = "read"
            /\ files' = after
            /\ empty' = zero
            /\ IF ReadFailed(rc, ScpName \in after)
               THEN /\ img' = Retire(img, t, [t EXCEPT !.pc = "exit", !.rc = rc,
                                              !.scpSeen = ScpName \in after,
                                              !.outcome = "Read failed"])
                    /\ status' = "Read failed"
               ELSE /\ img' = Move(img, t, [t EXCEPT !.pc = "conv", !.rc = rc,
                                              !.scpSeen = ScpName \in after,
                                              !.own = (res[2] = ScpName)])
                    /\ UNCHANGED status
            /\ UNCHANGED << btn, chk, call, ret >>

\* _img_thread lines 305-308: run the convert command to its end, locate
\* the image; if rc2 or not dsk: "Convert failed", return.
ImgConvert ==
    \E t \in BagToSet(img), res \in ConvOutcomes :
        LET rc2   == res[1]
            after == IF res[2] # None THEN files \cup {res[2]} ELSE files
        IN  /\ t.pc = "conv"
            /\ files' = after
            /\ \E d \in DetectOutputs(after) :
                 IF ConvertFailed(rc2, d)
                 THEN /\ img' = Retire(img, t, [t EXCEPT !.pc = "exit", !.rc2 = rc2,
                                                !.dsk = d,
                                                !.outcome = "Convert failed"])
                      /\ status' = "Convert failed"
                 ELSE /\ img' = Move(img, t, [t EXCEPT !.pc = "finish",
                                                !.rc2 = rc2, !.dsk = d,
                                                !.own = (t.own /\ res[2] = d)])
                      /\ UNCHANGED status
            /\ UNCHANGED << btn, empty, chk, call, ret >>

\* _img_thread lines 310-313: digest both files, show the digests, set
\* "Done", enable the button.
ImgFinish ==
    \E t \in BagToSet(img) :
        /\ t.pc = "finish"
        /\ img' = Move(img, t, [t EXCEPT !.pc = "save", !.digested = TRUE,
                                  !.outcome = "Done", !.reenabled = TRUE])
        /\ status' = "Done"
        /\ btn' = TRUE
        /\ UNCHANGED << files, empty, chk, call, ret >>

\* _img_thread lines 315-316: write <base>_session.json; the worker ends.
ImgSave ==
    \E t \in BagToSet(img) :
        /\ t.pc = "save"
        /\ img' = Retire(img, t, [t EXCEPT !.pc = "exit", !.summary = TRUE])
        /\ UNCHANGED << btn, status, files, empty, chk, call, ret >>

Next ==
    \/ RunChecks
    \/ CheckStatus
    \/ CheckBtn
    \/ ImageDisk
    \/ ImgPrepare
    \/ ImgRead
    \/ ImgConvert
    \/ ImgFinish
    \/ ImgSave

Spec == Init /\ [][Next]_vars

\* ------------------------------------------------------------- helpers alone
\* The helpers as functions of their inputs: a call is drawn from the
\* bounded sets below and one action applies the helper to it.

\* A call of _resolve: either tool, either override, either platform, the
\* tool on PATH or not, every state of the probed paths.  On Windows
\* os.access(p, os.X_OK) is true of every path that exists.
IsResolveCall(c) ==
    \E name \in Tools, custom \in Customs, nt \in BOOLEAN,
       f \in [ProbePaths -> FileStates] :
        \E w \in WhichResults(name) :
            /\ nt => \A q \in ProbePaths : f[q] # "noexec"
            /\ c = [ fn |-> "_resolve", name |-> name, custom |-> custom,
                     env |-> [nt |-> nt, which |-> w, fs |-> f] ]

\* A call of detect_output: the entries named after the base name that
\* the output directory holds.
IsDetectCall(c) ==
    \E present \in SUBSET DetectNames :
        c = [fn |-> "detect_output", present |-> present]

\* A call of run_stream: how Popen ends, and the child's exit code.
IsRunStreamCall(c) ==
    \E l \in LaunchOutcomes, code \in ExitCodes :
        c = [fn |-> "run_stream", launch |-> l, code |-> code]

\* A pre-flight check from its start to its end: what _resolve returns
\* for either tool, how the two probes of gw end and what --help prints.
IsChecksCall(c) ==
    \E res \in ResolveOutcomes, lh \in LaunchOutcomes, hc \in ExitCodes,
       out \in HelpOutputs, li \in LaunchOutcomes, code \in ExitCodes :
        c = [ fn |-> "_checks_thread", gw |-> res[1], sugar |-> res[2],
              lh |-> lh, hc |-> hc, out |-> out, li |-> li, code |-> code ]

\* A template expanded and split (lines 299-300): either default
\* template or one with other names, each tool at a path _resolve can
\* return, on PATH or fallback or the typed override with a space in it.
IsSplitCmdCall(c) ==
    \E tmpl \in ReadTemplates \cup ConvTemplates,
       gw \in {"/usr/bin/gw", Expanduser(CustomTyped)},
       sugar \in {SUGAR_FALLBACKS[1], Expanduser(CustomTyped)} :
        c = [fn |-> "split_cmd", tmpl |-> tmpl, gw |-> gw, sugar |-> sugar]

FnInit ==
    /\ btn = TRUE
    /\ status = "..."
    /\ files = {}
    /\ empty = {}
    /\ chk = EmptyBag
    /\ img = EmptyBag
    /\ \/ IsResolveCall(call)
       \/ IsRunStreamCall(call)
       \/ IsDetectCall(call)
       \/ IsChecksCall(call)
       \/ IsSplitCmdCall(call)
    /\ ret = NoRet

ApplyResolve ==
    /\ call.fn = "_resolve"
    /\ ~ret.done
    /\ ret' = [done |-> TRUE, val |-> Resolve(call.name, call.custom, call.env)]
    /\ UNCHANGED << btn, status, files, empty, chk, img, call >>

ApplyRunStream ==
    /\ call.fn = "run_stream"
    /\ ~ret.done
    /\ ret' = [done |-> TRUE,
               val |-> [rc |-> RunStream(call.launch, call.code),
                        sink |-> RunStreamSink(call.launch)]]
    /\ UNCHANGED << btn, status, files, empty, chk, img, call >>

ApplyDetectOutput ==
    /\ call.fn = "detect_output"
    /\ ~ret.done
    /\ \E d \in DetectOutputs(call.present) : ret' = [done |-> TRUE, val |-> d]
    /\ UNCHANGED << btn, status, files, empty, chk, img, call >>

\* _checks_thread run to its end: the status it sets (line 278) and
\* whether it enables the button (line 279).
ApplyChecksThread ==
    /\ call.fn = "_checks_thread"
    /\ ~ret.done
    /\ LET ok == ChecksOk(call.gw, RunCap(call.lh, call.hc, call.out),
                          RunCap(call.li, call.code, {}), call.sugar)
       IN  ret' = [done |-> TRUE,
                   val |-> [status |-> ChecksStatus(ok), enables |-> ok]]
    /\ UNCHANGED << btn, status, files, empty, chk, img, call >>

\* split_cmd(template.format(**subs)): the argument vector, unless
\* str.format raises.
ApplySplitCmd ==
    /\ call.fn = "split_cmd"
    /\ ~ret.done
    /\ LET f == Format(call.tmpl, Subs(call.gw, call.sugar))
       IN  ret' = [done |-> TRUE,
                   val |-> [ok |-> f.ok,
                            argv |-> IF f.ok THEN SplitCmd(f.words) ELSE <<>>]]
    /\ UNCHANGED << btn, status, files, empty, chk, img, call >>

FnNext ==
    \/ ApplyResolve
    \/ ApplyRunStream
    \/ ApplyDetectOutput
    \/ ApplyChecksThread
    \/ ApplySplitCmd

SpecFn == FnInit /\ [][FnNext]_vars

\* ------------------------------------------------------------- claims
Workers == BagToSet(img)
HasEnded(t) == t.pc \in {"exit", "crashed"}
ReadRan(t) == t.rc # NoRc
ConvertRan(t) == t.rc2 # NoRc

\* C1: at most one imaging worker (_img_thread) is running at any time,
\* under every interleaving of "Image Disk", "Recheck" and the workers.
C1_SingleActiveRun == NumActive <= 1

\* C2: an imaging run that has ended in Done, Read failed, Convert failed
\* or "Executables unresolved" has enabled the "Image Disk" button again.
C2_ReenabledAtEnd ==
    \A t \in Workers :
        (t.pc = "exit" /\ t.outcome \in {"Done", "Read failed", "Convert failed",
                                         "Pre-flight failed"})
            => t.reenabled

\* C3: a run whose read stage returned a non-zero code has ended in
\* Read failed without invoking the convert stage; a run reaches the
\* convert stage only with a read exit code 0 and the capture file present.
C3_ConvertOnlyAfterRead ==
    \A t \in Workers :
        /\ (ReadRan(t) /\ t.rc # 0)
             => (t.pc = "exit" /\ t.outcome = "Read failed" /\ ~ConvertRan(t))
        /\ (t.pc \in {"conv", "finish", "save"} \/ ConvertRan(t))
             => (t.rc = 0 /\ t.scpSeen)

\* C3 witness: a read stage exited non-zero although a capture file was
\* there, and the run ended in Read failed.
C3_Witness ==
    \E t \in Workers :
        t.pc = "exit" /\ ReadRan(t) /\ t.rc # 0 /\ t.scpSeen
          /\ t.outcome = "Read failed"

C5_SummaryBeforeDone ==
    \A t \in Workers : (t.outcome = "Done" /\ t.reenabled) => t.summary

\* C6: a run has written the session summary only if both tools resolved,
\* the read stage exited 0 with the capture file present, the convert
\* stage exited 0 and an image was located; a run that ended in Read
\* failed, Convert failed or "Executables unresolved" has written none.
C6_SummaryOnlyOnSuccess ==
    \A t \in Workers :
        /\ t.summary =>
             /\ t.gw # None /\ t.sugar # None
             /\ t.rc = 0 /\ t.scpSeen
             /\ t.rc2 = 0 /\ t.dsk \in ConvOutputs
        /\ (HasEnded(t) /\ t.outcome \in {"Read failed", "Convert failed",
                                          "Pre-flight failed"})
             => ~t.summary

\* C6 witness: a run has written its session summary and ended, after
\* both stages exited 0 and left their files.
C6_Witness ==
    \E t \in Workers :
        /\ t.pc = "exit" /\ t.summary /\ t.outcome = "Done"
        /\ t.rc = 0 /\ t.rc2 = 0 /\ t.own

\* C7: run_stream returns 127 when the executable is not found, 126 when
\* permission is denied, and 1 with the exception text in the sink for any
\* other launch exception.
C7_LaunchFailureCodes ==
    (ret.done /\ call.fn = "run_stream") =>
        /\ call.launch = "FileNotFoundError" => ret.val.rc = 127
        /\ call.launch = "PermissionError" => ret.val.rc = 126
        /\ call.launch = "OSError" =>
             (ret.val.rc = 1 /\ ret.val.sink = "Launch error")

\* C8: when a template names a placeholder outside the recognized set,
\* the error reported holds that name and every recognized name.
C8_ErrorNamesAll ==
    \A t \in Workers :
        t.pc = "crashed" =>
            /\ \E n \in t.names : n \notin Recognized
            /\ Recognized \subseteq t.names

\* C9: an imaging worker never ends without having set a terminal status
\* in place of "Imaging...".
C9_TerminalStatus ==
    \A t \in Workers : HasEnded(t) => t.outcome # "none"

\* C10: when shutil.which finds the tool, _resolve returns that path with
\* the found-on-PATH message, for either tool, whatever the fallback
\* locations and the override hold.
C10_PathWins ==
    (ret.done /\ call.fn = "_resolve" /\ call.env.which # None) =>
        /\ ret.val.path = call.env.which
        /\ ret.val.msg = Msg("found on PATH", call.name, call.env.which)

\* C10 witness: the converter is on PATH while a valid override is typed
\* and the first fallback location is installed; the PATH result is
\* returned.
C10_Witness ==
    /\ ret.done /\ call.fn = "_resolve" /\ call.name = "SugarConvDsk"
    /\ call.env.which # None
    /\ call.custom = CustomTyped
    /\ call.env.fs[Expanduser(CustomTyped)] = "exec"
    /\ call.env.fs[SUGAR_FALLBACKS[1]] = "exec"
    /\ ret.val.path = call.env.which

\* C11: for the converter with no override and not on PATH, _resolve
\* returns the first candidate of SUGAR_FALLBACKS, in list order, that
\* exists and is executable (a candidate being the list entry after
\* _maybe_exe), and None with the not-found message when every candidate
\* fails; for the reader, or with an override, the result never comes from
\* the fallback list.
C11_FallbackWalk ==
    (ret.done /\ call.fn = "_resolve" /\ call.env.which = None) =>
        LET env  == call.env
            cand == [i \in 1..Len(SUGAR_FALLBACKS) |-> MaybeExe(SUGAR_FALLBACKS[i], env)]
            good == { i \in 1..Len(SUGAR_FALLBACKS) : env.fs[cand[i]] = "exec" }
        IN  IF call.name = "SugarConvDsk" /\ call.custom = ""
            THEN IF good = {}
                 THEN /\ ret.val.path = None
                      /\ ret.val.msg = Msg("not found. Provide a path.", call.name, None)
                 ELSE \E i \in good :
                        /\ \A j \in good : i <= j
                        /\ ret.val.path = cand[i]
                        /\ ret.val.msg = Msg("resolved via fallback", call.name, cand[i])
            ELSE /\ ret.val.msg.kind # "resolved via fallback"
                 /\ call.custom = ""
                      => ret.val = [path |-> None,
                                    msg |-> Msg("not found. Provide a path.", call.name, None)]
                 /\ call.custom # ""
                      => ret.val.path \in {None, MaybeExe(Expanduser(call.custom), env)}

\* C11 witness: the converter, no override, not on PATH; the first two
\* fallback locations fail (one absent, one not executable) and the third
\* is returned.
C11_Witness ==
    /\ ret.done /\ call.fn = "_resolve" /\ call.name = "SugarConvDsk"
    /\ call.env.which = None /\ call.custom = "" /\ ~call.env.nt
    /\ call.env.fs[SUGAR_FALLBACKS[1]] = "absent"
    /\ call.env.fs[SUGAR_FALLBACKS[2]] = "noexec"
    /\ call.env.fs[SUGAR_FALLBACKS[3]] = "exec"
    /\ call.env.fs[SUGAR_FALLBACKS[4]] = "exec"
    /\ ret.val.path = SUGAR_FALLBACKS[3]

\* C12: detect_output returns the expected path whenever it exists;
\* otherwise the first existing name in the order base+.DSK, .dsk, .EDSK,
\* .edsk, .dsk.DSK, .edsk.EDSK; otherwise a file starting with the base
\* name whose suffix, lower-cased, contains dsk or edsk; otherwise None.
C12_LocatorOrder ==
    (ret.done /\ call.fn = "detect_output") =>
        LET present == call.present
            order   == << ".DSK", ".dsk", ".EDSK", ".edsk", ".dsk.DSK", ".edsk.EDSK" >>
            listed  == { i \in 1..Len(order) : order[i] \in present }
            loose   == { n \in present : IsFile(n) /\ SuffixHasDsk(n) }
        IN  IF ".DSK" \in present THEN ret.val = ".DSK"
            ELSE IF listed # {}
            THEN \E i \in listed : (\A j \in listed : i <= j) /\ ret.val = order[i]
            ELSE IF loose # {} THEN ret.val \in loose
            ELSE ret.val = None

\* C12 witness: no exact match, base.dsk.DSK exists beside a later name of
\* the list and a loosely matching file; base.dsk.DSK is returned.
C12_Witness ==
    /\ ret.done /\ call.fn = "detect_output"
    /\ call.present = {".dsk.DSK", ".edsk.EDSK", "_a.dsk", ".scp"}
    /\ ret.val = ".dsk.DSK"

\* C13: the read stage counts as successful only if it leaves a capture
\* file of non-zero size: whenever a worker passes from the read stage to
\* the convert stage, the capture file exists and is not zero-length (a
\* read that exits 0 over a missing or zero-length capture ends the run
\* in "Read failed" with no convert).
EntersConvert ==
    \E t \in BagToSet(img') :
        t.pc = "conv" /\ CopiesIn(t, img') > CopiesIn(t, img)

C13_NonEmptyCapture ==
    [][ EntersConvert => (ScpName \in files' /\ ScpName \notin empty') ]_vars

\* The steps taken by the worker threads (target=_checks_thread,
\* target=_img_thread); run_checks and image_disk are Tk callbacks and
\* run on the interactive thread.
WorkerStep ==
    \/ CheckStatus
    \/ CheckBtn
    \/ ImgPrepare
    \/ ImgRead
    \/ ImgConvert
    \/ ImgFinish
    \/ ImgSave

\* C14: every mutation of the display state (status text, enabled state
\* of the Image Disk button) happens on the interactive thread: no step of
\* a pre-flight worker or of an imaging worker changes it.
C14_DisplayOnUiThread ==
    [][ WorkerStep => UNCHANGED << btn, status >> ]_vars

\* C15: a pre-flight check ends in "Ready." with the button enabled if
\* and only if both tools resolve, the text `gw --help` prints is
\* recognised and `gw info` exits 0; in every other case it ends in
\* "Pre-flight failed" and does not enable the button.
C15_PreflightOkIff ==
    (ret.done /\ call.fn = "_checks_thread") =>
        LET resolved == call.gw # None /\ call.sugar # None
            helped   == call.lh = "started" /\ call.out \cap HelpMarkers # {}
            informed == call.li = "started" /\ call.code = 0
        IN  IF resolved /\ helped /\ informed
            THEN ret.val.status = "Ready." /\ ret.val.enables
            ELSE ret.val.status = "Pre-flight failed" /\ ~ret.val.enables

\* C15 witness: both tools resolve and the help text is recognised, but
\* `gw info` exits 1 (no device): the check ends in "Pre-flight failed".
C15_Witness ==
    /\ ret.done /\ call.fn = "_checks_thread"
    /\ call.gw # None /\ call.sugar # None
    /\ call.lh = "started" /\ call.out = {"Usage:"}
    /\ call.li = "started" /\ call.code = 1
    /\ ret.val.status = "Pre-flight failed" /\ ~ret.val.enables

\* C16: whenever the status shown is "Pre-flight failed", the Image Disk
\* button is disabled, however pre-flight checks and runs overlap.
C16_FailedMeansDisabled == (status = "Pre-flight failed") => ~btn

\* C17: every imaging run resolves both tools anew when it starts; a run
\* that finds either tool unresolved ends at once in "Pre-flight failed"
\* (with the message "Executables unresolved."), having launched neither
\* stage and written neither digests nor the session summary.
C17_UnresolvedLaunchesNothing ==
    \A t \in Workers :
        (t.pc # "prepare" /\ (t.gw = None \/ t.sugar = None)) =>
            /\ t.pc = "exit" /\ t.outcome = "Pre-flight failed"
            /\ ~ReadRan(t) /\ ~ConvertRan(t)
            /\ t.read_cmd = <<>> /\ t.conv_cmd = <<>>
            /\ ~t.digested /\ ~t.summary

\* C17 witness: a run started from an enabled button finds the reader
\* but not the converter and has ended in "Pre-flight failed".
C17_Witness ==
    \E t \in Workers :
        /\ t.pc = "exit" /\ t.gw # None /\ t.sugar = None
        /\ t.outcome = "Pre-flight failed" /\ ~ReadRan(t)

\* C18: both command templates are expanded before any subprocess of the
\* run is launched: a run killed by a failed expansion has started
\* neither stage, and a run that is at or past its read stage holds both
\* expanded commands.
C18_ExpandBeforeLaunch ==
    \A t \in Workers :
        /\ t.pc = "crashed" => (~ReadRan(t) /\ ~ConvertRan(t))
        /\ (t.pc = "read" \/ ReadRan(t)) =>
              (t.read_cmd # <<>> /\ t.conv_cmd # <<>>)

\* C18 witness: the read template expands, the convert template names
\* {converter}; the run has died without starting the read stage.
C18_Witness ==
    \E t \in Workers :
        /\ t.pc = "crashed" /\ t.names = {"converter"}
        /\ ~ReadRan(t) /\ ~ConvertRan(t)

\* C19: a run that has reached Done has digested files of its own making:
\* the capture file was left by its read stage and the image the locator
\* returned was left by its convert stage, not by an earlier run with the
\* same base name.
C19_DigestsOwnArtifacts ==
    \A t \in Workers : t.outcome = "Done" => t.own

\* C20: when a template expands, the argument vector has as many elements
\* as the template has words, and a word that is one placeholder gives
\* one argument equal to the placeholder's value, whatever the value
\* (a path with a space in it included).
C20_OneArgumentPerWord ==
    (ret.done /\ call.fn = "split_cmd" /\ ret.val.ok) =>
        LET tmpl == call.tmpl
            subs == Subs(call.gw, call.sugar)
            argv == ret.val.argv
        IN  /\ Len(argv) = Len(tmpl)
            /\ \A w \in 1..Len(tmpl) :
                  (Len(tmpl[w]) = 1 /\ IsField(tmpl[w][1])) =>
                      (w <= Len(argv) /\ argv[w] = << subs[FieldNames[tmpl[w][1]]] >>)

=============================================================================
